---- MODULE Spec2Model ----
(***************************************************************************)
(* Model of the workforce forecasting pipeline (forecasting_script.py)    *)
(* and of the sensitivity dashboard (app.py).                              *)
(*                                                                         *)
(* Numbers are exact rationals [k, n, d]; floating-point NaN and infinity  *)
(* are the cells NaN and Inf(s).  Dates are day numbers on a calendar      *)
(* whose months all have DaysPerMonth days, so day d is a month end        *)
(* exactly when it is a multiple of DaysPerMonth.                          *)
(***************************************************************************)
EXTENDS Integers, Sequences, FiniteSets, TLC

VARIABLES
    folder,        \* project/data: the CSV files of the input folder
    method,        \* the method argument of forecast_membership
    pc,            \* position of the pipeline script
    error,         \* the exception that ended the pipeline, or "none"
    data,          \* the DataFrame `data`
    forecast,      \* the DataFrame `forecasted_membership`
    avgRate,       \* avg_contact_rate of the pipeline
    validation,    \* actual / predicted of step 8 and the metrics
    reportFile,    \* project/output/forecast_results_2026.csv
    dashPc,        \* position of the dashboard script (app.py)
    dashError,     \* the exception that ended the dashboard session, or "none"
    forecastDf,    \* forecast_df of app.py
    dashRate,      \* avg_contact_rate of app.py
    sliders,       \* the four st.slider widget values
    shown          \* what st.write displayed

vars == <<folder, method, pc, error, data, forecast, avgRate, validation,
          reportFile, dashPc, dashError, forecastDf, dashRate, sliders, shown>>

pipeVars == <<folder, method, pc, error, data, forecast, avgRate, validation>>
dashVars == <<dashPc, dashError, forecastDf, dashRate, sliders, shown>>

-----------------------------------------------------------------------------
(* Bounds of the model and constants of the program *)

MaxHistory == 13
MaxFiles == 2
DaysPerMonth == 2
MaxModelErr == 1
MaxReportRows == 1
Grid == 2

Horizon == 12
ValidationWindow == 12
BaseMembership == 4
BaseCalls == 2
CIWidth == 1

MembershipMin == 50000
MembershipMax == 200000
MembershipDefault == 100000
AhtMin == 300
AhtMax == 900
AhtDefault == 600
ShrinkageMin == 10
ShrinkageMax == 40
ShrinkageDefault == 25
OccupancyMin == 70
OccupancyMax == 95
OccupancyDefault == 85
ShiftHours == 8
SecondsPerHour == 3600

-----------------------------------------------------------------------------
(* Floating-point cells as exact rationals *)

Abs(x) == IF x < 0 THEN -x ELSE x

Sign(x) == IF x < 0 THEN -1 ELSE IF x = 0 THEN 0 ELSE 1

RECURSIVE Gcd(_, _)
Gcd(a, b) == IF b = 0 THEN a ELSE Gcd(b, a % b)

NaN == [k |-> "nan", n |-> 0, d |-> 1]

Inf(s) == [k |-> "inf", n |-> s, d |-> 1]

Rat(n, d) ==
    LET g == Gcd(Abs(n), d)
    IN [k |-> "num", n |-> n \div g, d |-> d \div g]

Num(n) == [k |-> "num", n |-> n, d |-> 1]

NoValue == [k |-> "none", n |-> 0, d |-> 1]

IsNaN(c) == c.k = "nan"
IsNum(c) == c.k = "num"
IsInf(c) == c.k = "inf"

\* a + b
Add(a, b) ==
    IF IsNaN(a) \/ IsNaN(b) THEN NaN
    ELSE IF IsInf(a) /\ IsInf(b) THEN (IF a.n = b.n THEN a ELSE NaN)
    ELSE IF IsInf(a) THEN a
    ELSE IF IsInf(b) THEN b
    ELSE LET g == Gcd(a.d, b.d)
         IN Rat(a.n * (b.d \div g) + b.n * (a.d \div g), (a.d \div g) * b.d)

Neg(a) == IF IsNaN(a) THEN NaN ELSE [a EXCEPT !.n = -a.n]

Sub(a, b) == Add(a, Neg(b))

\* a * b, cancelling common factors before multiplying
Mul(a, b) ==
    IF IsNaN(a) \/ IsNaN(b) THEN NaN
    ELSE IF IsInf(a) \/ IsInf(b)
         THEN (IF a.n = 0 \/ b.n = 0 THEN NaN ELSE Inf(Sign(a.n) * Sign(b.n)))
    ELSE IF a.n = 0 \/ b.n = 0 THEN Num(0)
    ELSE LET g1 == Gcd(Abs(a.n), b.d)
             g2 == Gcd(Abs(b.n), a.d)
         IN [k |-> "num",
             n |-> (a.n \div g1) * (b.n \div g2),
             d |-> (a.d \div g2) * (b.d \div g1)]

\* a / b as numpy float64 divides: x/0 is inf, 0/0 is nan, no exception
Div(a, b) ==
    IF IsNaN(a) \/ IsNaN(b) THEN NaN
    ELSE IF IsInf(b) THEN (IF IsInf(a) THEN NaN ELSE Num(0))
    ELSE IF IsInf(a) THEN (IF b.n < 0 THEN Inf(-a.n) ELSE a)
    ELSE IF b.n = 0 THEN (IF a.n = 0 THEN NaN ELSE Inf(Sign(a.n)))
    ELSE Mul(a, [k |-> "num", n |-> Sign(b.n) * b.d, d |-> Abs(b.n)])

AbsCell(a) == IF IsNaN(a) THEN NaN ELSE [a EXCEPT !.n = Abs(a.n)]

RECURSIVE SumCells(_)
SumCells(s) == IF s = <<>> THEN Num(0) ELSE Add(Head(s), SumCells(Tail(s)))

SelectValid(s) == SelectSeq(s, LAMBDA c : ~IsNaN(c))

\* Series.sum(): missing values are skipped
SeriesSum(s) == SumCells(SelectValid(s))

\* Series.mean(): missing values are skipped, an empty series has mean nan
SeriesMean(s) ==
    LET v == SelectValid(s)
    IN IF v = <<>> THEN NaN ELSE Div(SumCells(v), Num(Len(v)))

Column(df, c) == [i \in 1..Len(df.rows) |-> df.rows[i][c]]

Range(s) == {s[i] : i \in 1..Len(s)}

EmptyFrame == [cols |-> <<>>, rows |-> <<>>]

\* DataFrame.empty
IsEmpty(df) == df.cols = <<>> \/ df.rows = <<>>

HasCol(df, c) == c \in Range(df.cols)

-----------------------------------------------------------------------------
(* The calendar: pandas month-end frequency ('M') *)

MonthEndOnOrAfter(day) == ((day + DaysPerMonth - 1) \div DaysPerMonth) * DaysPerMonth

\* pd.date_range(start=start, periods=periods, freq='M')
DateRange(start, periods) ==
    [i \in 1..periods |-> MonthEndOnOrAfter(start) + (i - 1) * DaysPerMonth]

-----------------------------------------------------------------------------
(* The input folder *)

DATE == "Date"
MEMBERS == "Membership_Count"
CALLS == "Historical_Call_Volume"
RATE == "Contact_Rate"
FCV == "Forecasted_Call_Volume"
FM == "Forecasted_Membership"

AllCols == <<DATE, MEMBERS, CALLS>>

ColumnChoices ==
    {AllCols, <<MEMBERS, CALLS>>, <<DATE, CALLS>>, <<DATE, MEMBERS>>}

Specials == {"none", "zeroMember", "nanMember", "zeroBoth"}

Lengths == {1, 2} \cup (ValidationWindow..MaxHistory)

\* record i of a monthly history; `special` puts a zero or a gap at record `pos`
HistoryCell(i, c, offset, special, pos) ==
    IF c = DATE THEN Num(i * DaysPerMonth - offset)
    ELSE IF c = MEMBERS
         THEN (IF i = pos /\ special \in {"zeroMember", "zeroBoth"} THEN Num(0)
               ELSE IF i = pos /\ special = "nanMember" THEN NaN
               ELSE Num(BaseMembership + 2 * (i % 2)))
    ELSE IF i = pos /\ special = "zeroBoth" THEN Num(0) ELSE Num(BaseCalls)

\* the history of n records split over nFiles CSV files with the header cols
Folder(nFiles, n, cols, offset, special, pos) ==
    [f \in 1..nFiles |->
        LET lo == ((f - 1) * n) \div nFiles
            hi == (f * n) \div nFiles
        IN [cols |-> cols,
            rows |-> [j \in 1..(hi - lo) |->
                        [c \in Range(cols) |->
                            HistoryCell(lo + j, c, offset, special, pos)]]]]

\* complete files with every kind of record, and clean files that lack a column
Folders ==
    {Folder(nFiles, n, AllCols, offset, special, pos) :
        nFiles \in 0..MaxFiles, n \in Lengths, offset \in 0..1,
        special \in Specials, pos \in {1, ValidationWindow, MaxHistory}}
    \cup
    {Folder(nFiles, n, cols, 0, "none", 1) :
        nFiles \in 1..MaxFiles, n \in Lengths, cols \in ColumnChoices}

Orders(n) == {p \in [1..n -> 1..n] : \A i, j \in 1..n : p[i] = p[j] => i = j}

-----------------------------------------------------------------------------
(* forecasting_script.py, steps 3 to 9 *)

RECURSIVE ConcatRows(_, _, _)
ConcatRows(fold, order, i) ==
    IF i > Len(fold) THEN <<>>
    ELSE fold[order[i]].rows \o ConcatRows(fold, order, i + 1)

\* load_and_combine_csv: any exception is printed and an empty frame returned
load_and_combine_csv(fold, order) ==
    IF Len(fold) = 0 THEN EmptyFrame
    ELSE LET combined_df == [cols |-> fold[order[1]].cols,
                             rows |-> ConcatRows(fold, order, 1)]
         IN IF ~HasCol(combined_df, DATE) THEN EmptyFrame ELSE combined_df

SetMax(S) == CHOOSE x \in S : \A y \in S : y <= x
SetMin(S) == CHOOSE x \in S : \A y \in S : x <= y

\* the last valid value of column c at or before row i
LastValid(rows, c, i) ==
    LET valid == {j \in 1..i : ~IsNaN(rows[j][c])}
    IN IF valid = {} THEN NaN ELSE rows[SetMax(valid)][c]

\* data.fillna(method='ffill', inplace=True)
Ffill(df) ==
    [df EXCEPT !.rows =
        [i \in 1..Len(df.rows) |->
            [c \in DOMAIN df.rows[i] |-> LastValid(df.rows, c, i)]]]

RECURSIVE SortedSeq(_)
SortedSeq(S) ==
    IF S = {} THEN <<>>
    ELSE LET m == SetMin(S) IN <<m>> \o SortedSeq(S \ {m})

DateOf(row) == row[DATE].n

\* the membership the fitted model sees on day d (the first record of that day)
Observed(df, day) ==
    LET i == SetMin({j \in 1..Len(df.rows) : DateOf(df.rows[j]) = day})
        y == df.rows[i][MEMBERS]
    IN IF IsNaN(y) THEN Num(BaseMembership) ELSE y

ForecastRow(day, y, err) ==
    [ds |-> Num(day),
     yhat |-> Add(y, Num(err)),
     yhat_lower |-> Add(y, Num(err - CIWidth)),
     yhat_upper |-> Add(y, Num(err + CIWidth))]

ForecastCols == <<"ds", "yhat", "yhat_lower", "yhat_upper">>

\* Prophet: make_future_dataframe(periods=12, freq='M') keeps the history's dates
\* and appends the 12 month ends after the last one; predict gives a row per date
ProphetForecast(df, err) ==
    LET days == {DateOf(df.rows[i]) : i \in 1..Len(df.rows)}
        last == SetMax(days)
        range == DateRange(last, Horizon + 1)
        later == SelectSeq(range, LAMBDA x : x > last)
        future == SubSeq(later, 1, Horizon)
        history == SortedSeq(days)
    IN [cols |-> ForecastCols,
        rows |-> [i \in 1..Len(history) |->
                     ForecastRow(history[i], Observed(df, history[i]), err)]
                 \o [i \in 1..Len(future) |->
                     ForecastRow(future[i], Observed(df, last), err)]]

\* ARIMA: 12 steps, dated pd.date_range(start=ts.index[-1], periods=12, freq='M')
ArimaForecast(df, err) ==
    LET n == Len(df.rows)
        ds == DateRange(DateOf(df.rows[n]), Horizon)
        y == LastValid(df.rows, MEMBERS, n)
    IN [cols |-> ForecastCols,
        rows |-> [i \in 1..Horizon |-> ForecastRow(ds[i], y, err)]]

forecast_membership(df, m, err) ==
    IF m = "prophet" THEN ProphetForecast(df, err) ELSE ArimaForecast(df, err)

\* the libraries refuse a series with fewer than two observations
TooShort(df) == Len(SelectValid(Column(df, MEMBERS))) < 2

AddColumn(df, c, value(_)) ==
    [cols |-> IF HasCol(df, c) THEN df.cols ELSE Append(df.cols, c),
     rows |-> [i \in 1..Len(df.rows) |->
                 [x \in DOMAIN df.rows[i] \cup {c} |->
                     IF x = c THEN value(df.rows[i]) ELSE df.rows[i][x]]]]

\* data['Contact_Rate'] = data['Historical_Call_Volume'] / data['Membership_Count']
calculate_contact_rate(df) ==
    AddColumn(df, RATE, LAMBDA row : Div(row[CALLS], row[MEMBERS]))

\* forecasted_membership['Forecasted_Call_Volume'] = yhat * avg_contact_rate
ProjectCallVolume(fc, avg) ==
    AddColumn(fc, FCV, LAMBDA row : Mul(row["yhat"], avg))

\* data['Membership_Count'][-12:]
Actual(df) ==
    LET n == Len(df.rows)
        from == IF n > ValidationWindow THEN n - ValidationWindow + 1 ELSE 1
    IN [i \in 1..(n - from + 1) |->
           [date |-> DateOf(df.rows[from + i - 1]), v |-> df.rows[from + i - 1][MEMBERS]]]

\* forecasted_membership['yhat'][:12]
Predicted(fc) ==
    LET n == IF Len(fc.rows) > ValidationWindow THEN ValidationWindow ELSE Len(fc.rows)
    IN [i \in 1..n |-> [date |-> fc.rows[i]["ds"].n, v |-> fc.rows[i]["yhat"]]]

\* sklearn rejects sequences of different lengths and non-finite values
ValidationError(actual, predicted) ==
    \/ Len(actual) # Len(predicted)
    \/ \E i \in 1..Len(actual) : ~IsNum(actual[i].v)
    \/ \E i \in 1..Len(predicted) : ~IsNum(predicted[i].v)

\* mean_absolute_percentage_error; a zero actual divides by machine epsilon,
\* which the infinite cell stands for
Mape(actual, predicted) ==
    SeriesMean([i \in 1..Len(actual) |->
        LET e == AbsCell(Sub(actual[i].v, predicted[i].v))
        IN IF e.n = 0 THEN Num(0) ELSE Div(e, AbsCell(actual[i].v))])

\* mean_squared_error (the script prints its square root)
Mse(actual, predicted) ==
    SeriesMean([i \in 1..Len(actual) |->
        LET e == Sub(actual[i].v, predicted[i].v) IN Mul(e, e)])

NoValidation == [actual |-> <<>>, predicted |-> <<>>, mape |-> NoValue, mse |-> NoValue]

-----------------------------------------------------------------------------
(* The report file: DataFrame.to_csv and pd.read_csv *)

NoFile == [exists |-> FALSE, header |-> <<>>, rows |-> <<>>]

\* a datetime is written as its ISO text, a float as its shortest repr,
\* a missing value as an empty field
FieldText(c, cell) ==
    IF c \in {"ds", DATE} /\ IsNum(cell) THEN [kind |-> "date", v |-> cell]
    ELSE IF IsNaN(cell) THEN [kind |-> "empty", v |-> NoValue]
    ELSE [kind |-> "float", v |-> cell]

\* read_csv without parse_dates: a date field stays a string
ParseField(field) ==
    IF field.kind = "date" THEN [field.v EXCEPT !.k = "str"]
    ELSE IF field.kind = "empty" THEN NaN
    ELSE field.v

\* to_csv(output_file, index=False)
ToCsv(df) ==
    [exists |-> TRUE,
     header |-> df.cols,
     rows |-> [i \in 1..Len(df.rows) |->
                 [c \in DOMAIN df.rows[i] |-> FieldText(c, df.rows[i][c])]]]

\* pd.read_csv(path) of an existing file
ReadCsv(file) ==
    [cols |-> file.header,
     rows |-> [i \in 1..Len(file.rows) |->
                 [c \in DOMAIN file.rows[i] |-> ParseField(file.rows[i][c])]]]

-----------------------------------------------------------------------------
(* The pipeline script, statement by statement *)

Abort(e) ==
    /\ pc' = "aborted"
    /\ error' = e

\* line 48: data = load_and_combine_csv(input_folder); os.listdir fixes no order
Load ==
    /\ pc = "load"
    /\ \E order \in Orders(Len(folder)) :
           data' = load_and_combine_csv(folder, order)
    /\ pc' = "check"
    /\ UNCHANGED <<folder, method, error, forecast, avgRate, validation,
                   reportFile>>
    /\ UNCHANGED dashVars

\* lines 53-54: if data.empty: raise ValueError
CheckEmpty ==
    /\ pc = "check"
    /\ IF IsEmpty(data)
       THEN Abort("ValueError: DataFrame is empty")
       ELSE pc' = "clean" /\ error' = error
    /\ UNCHANGED <<folder, method, data, forecast, avgRate, validation,
                   reportFile>>
    /\ UNCHANGED dashVars

\* line 62: data.fillna(method='ffill', inplace=True)
Clean ==
    /\ pc = "clean"
    /\ data' = Ffill(data)
    /\ pc' = "forecast"
    /\ UNCHANGED <<folder, method, error, forecast, avgRate, validation,
                   reportFile>>
    /\ UNCHANGED dashVars

\* line 99: forecasted_membership = forecast_membership(data, method)
ForecastMembership ==
    /\ pc = "forecast"
    /\ \E err \in {-MaxModelErr, 0, MaxModelErr}, converges \in BOOLEAN :
        IF ~HasCol(data, MEMBERS)
        THEN Abort("KeyError: Membership_Count") /\ forecast' = forecast
        ELSE IF TooShort(data) \/ ~converges
        THEN Abort("ValueError: model fit") /\ forecast' = forecast
        ELSE /\ forecast' = forecast_membership(data, method, err)
             /\ pc' = "rate"
             /\ error' = error
    /\ UNCHANGED <<folder, method, data, avgRate, validation, reportFile>>
    /\ UNCHANGED dashVars

\* lines 109-110: data = calculate_contact_rate(data); avg_contact_rate = mean
ContactRate ==
    /\ pc = "rate"
    /\ IF ~HasCol(data, CALLS)
       THEN Abort("KeyError: Historical_Call_Volume") /\ UNCHANGED <<data, avgRate>>
       ELSE /\ data' = calculate_contact_rate(data)
            /\ avgRate' = SeriesMean(Column(data', RATE))
            /\ pc' = "project"
            /\ error' = error
    /\ UNCHANGED <<folder, method, forecast, validation, reportFile>>
    /\ UNCHANGED dashVars

\* line 111
Project ==
    /\ pc = "project"
    /\ forecast' = ProjectCallVolume(forecast, avgRate)
    /\ pc' = "validate"
    /\ UNCHANGED <<folder, method, error, data, avgRate, validation, reportFile>>
    /\ UNCHANGED dashVars

\* Validate with the validation error reported but not raised
ValidateAndCarryOn ==
    /\ pc = "validate"
    /\ LET actual == Actual(data)
           predicted == Predicted(forecast)
       IN IF ValidationError(actual, predicted)
          THEN validation' = validation
          ELSE validation' = [actual |-> actual, predicted |-> predicted,
                              mape |-> Mape(actual, predicted),
                              mse |-> Mse(actual, predicted)]
    /\ pc' = "save"
    /\ UNCHANGED <<folder, method, error, data, forecast, avgRate, reportFile>>
    /\ UNCHANGED dashVars

\* lines 116-120
Validate ==
    /\ pc = "validate"
    /\ LET actual == Actual(data)
           predicted == Predicted(forecast)
       IN IF ValidationError(actual, predicted)
          THEN Abort("ValueError: validation") /\ validation' = validation
          ELSE /\ validation' = [actual |-> actual, predicted |-> predicted,
                                 mape |-> Mape(actual, predicted),
                                 mse |-> Mse(actual, predicted)]
               /\ pc' = "save"
               /\ error' = error
    /\ UNCHANGED <<folder, method, data, forecast, avgRate, reportFile>>
    /\ UNCHANGED dashVars

\* line 125: forecasted_membership.to_csv(output_file, index=False)
SaveOutput ==
    /\ pc = "save"
    /\ reportFile' = ToCsv(forecast)
    /\ pc' = "done"
    /\ UNCHANGED <<folder, method, error, data, forecast, avgRate, validation>>
    /\ UNCHANGED dashVars

-----------------------------------------------------------------------------
(* The dashboard script app.py; Streamlit reruns it on every slider change *)

SliderValues(lo, hi, default) ==
    {lo, default, hi} \cup {lo + (k * (hi - lo)) \div Grid : k \in 0..Grid}

MembershipValues == SliderValues(MembershipMin, MembershipMax, MembershipDefault)
AhtValues == SliderValues(AhtMin, AhtMax, AhtDefault)
ShrinkageValues == SliderValues(ShrinkageMin, ShrinkageMax, ShrinkageDefault)
OccupancyValues == SliderValues(OccupancyMin, OccupancyMax, OccupancyDefault)

DefaultSliders ==
    [membership |-> MembershipDefault, aht |-> AhtDefault,
     shrinkage |-> ShrinkageDefault, occupancy |-> OccupancyDefault]

NothingShown == [adjusted |-> NoValue, agents |-> NoValue]

\* int(): the fraction is dropped
PyTruncate(c) ==
    IF ~IsNum(c) THEN c ELSE Num(c.n \div c.d)

\* round() and the ',.0f' format: to the nearest integer, ties to the even one
PyRound(c) ==
    IF ~IsNum(c) THEN c
    ELSE LET q == c.n \div c.d
             r == c.n % c.d
         IN IF 2 * r < c.d THEN Num(q)
            ELSE IF 2 * r > c.d THEN Num(q + 1)
            ELSE IF q % 2 = 0 THEN Num(q) ELSE Num(q + 1)

\* line 24: adjusted_volume = membership * avg_contact_rate
AdjustedVolume(membership, rate) == Mul(Num(membership), rate)

\* the staffing formula with occupancy multiplied in instead of divided out
AgentsNeededTimesOccupancy(adjusted_volume, aht, shrinkage, occupancy) ==
    Mul(adjusted_volume,
        Div(Div(Mul(Num(aht), Div(Num(occupancy), Num(100))),
                Sub(Num(1), Div(Num(shrinkage), Num(100)))),
            Num(ShiftHours * SecondsPerHour)))

\* line 27: adjusted_volume * aht / (occupancy / 100) / (1 - shrinkage / 100)
\* / (8 * 3600); exact arithmetic is associative, and the product is taken
\* last to keep every intermediate value small
AgentsNeeded(adjusted_volume, aht, shrinkage, occupancy) ==
    Mul(adjusted_volume,
        Div(Div(Div(Num(aht), Div(Num(occupancy), Num(100))),
                Sub(Num(1), Div(Num(shrinkage), Num(100)))),
            Num(ShiftHours * SecondsPerHour)))

DashCrash(e) ==
    /\ dashPc' = "crashed"
    /\ dashError' = e

\* line 11: forecast_df = pd.read_csv(...)
DashLoad ==
    /\ dashPc = "load"
    /\ IF ~reportFile.exists
       THEN DashCrash("FileNotFoundError") /\ forecastDf' = forecastDf
       ELSE /\ forecastDf' = ReadCsv(reportFile)
            /\ dashPc' = "rate"
            /\ dashError' = dashError
    /\ UNCHANGED <<dashRate, sliders, shown, reportFile>>
    /\ UNCHANGED pipeVars

\* line 14: avg_contact_rate = Forecasted_Call_Volume.sum() / Forecasted_Membership.sum()
DashAvgRate ==
    /\ dashPc = "rate"
    /\ IF ~HasCol(forecastDf, FCV)
       THEN DashCrash("KeyError: Forecasted_Call_Volume") /\ dashRate' = dashRate
       ELSE IF ~HasCol(forecastDf, FM)
       THEN DashCrash("KeyError: Forecasted_Membership") /\ dashRate' = dashRate
       ELSE /\ dashRate' = Div(SeriesSum(Column(forecastDf, FCV)),
                               SeriesSum(Column(forecastDf, FM)))
            /\ dashPc' = "render"
            /\ dashError' = dashError
    /\ UNCHANGED <<forecastDf, sliders, shown, reportFile>>
    /\ UNCHANGED pipeVars

\* lines 17-36: the sliders are read, the two figures written, the charts drawn
DashRender ==
    /\ dashPc = "render"
    /\ LET adjusted_volume == AdjustedVolume(sliders.membership, dashRate)
           agents_needed == AgentsNeeded(adjusted_volume, sliders.aht,
                                         sliders.shrinkage, sliders.occupancy)
       IN IF ~IsNum(agents_needed)
          THEN /\ DashCrash("round: not a finite number")
               /\ shown' = [adjusted |-> PyRound(adjusted_volume), agents |-> NoValue]
          ELSE IF ~HasCol(forecastDf, DATE)
          THEN /\ DashCrash("KeyError: Date")
               /\ shown' = [adjusted |-> PyRound(adjusted_volume),
                            agents |-> PyRound(agents_needed)]
          ELSE /\ shown' = [adjusted |-> PyRound(adjusted_volume),
                            agents |-> PyRound(agents_needed)]
               /\ dashPc' = "shown"
               /\ dashError' = dashError
    /\ UNCHANGED <<forecastDf, dashRate, sliders, reportFile>>
    /\ UNCHANGED pipeVars

\* a slider change: the script starts again from line 1 in a fresh namespace,
\* only the widget values are kept
Rerun(s) ==
    /\ dashPc = "shown"
    /\ s # sliders
    /\ sliders' = s
    /\ dashPc' = "load"
    /\ forecastDf' = EmptyFrame
    /\ dashRate' = NoValue
    /\ shown' = NothingShown
    /\ UNCHANGED <<dashError, reportFile>>
    /\ UNCHANGED pipeVars

\* line 19
SetMembership ==
    \E v \in MembershipValues : Rerun([sliders EXCEPT !.membership = v])

\* line 20
SetAht ==
    \E v \in AhtValues : Rerun([sliders EXCEPT !.aht = v])

\* line 21
SetShrinkage ==
    \E v \in ShrinkageValues : Rerun([sliders EXCEPT !.shrinkage = v])

\* line 22
SetOccupancy ==
    \E v \in OccupancyValues : Rerun([sliders EXCEPT !.occupancy = v])

-----------------------------------------------------------------------------
(* Specifications *)

\* the report a run on a clean 12-month history left behind
OldReport ==
    LET df == Ffill(load_and_combine_csv(
                  Folder(1, ValidationWindow, AllCols, 0, "none", 1), <<1>>))
        rated == calculate_contact_rate(df)
    IN ToCsv(ProjectCallVolume(forecast_membership(df, "prophet", 0),
                               SeriesMean(Column(rated, RATE))))

InitDashboard ==
    /\ dashPc = "load"
    /\ dashError = "none"
    /\ forecastDf = EmptyFrame
    /\ dashRate = NoValue
    /\ sliders = DefaultSliders
    /\ shown = NothingShown

InitPipeline ==
    /\ pc = "load"
    /\ error = "none"
    /\ data = EmptyFrame
    /\ forecast = EmptyFrame
    /\ avgRate = NoValue
    /\ validation = NoValidation

\* a pipeline run on any input folder, and a dashboard session started at any time
Init ==
    /\ folder \in Folders
    /\ method \in {"prophet", "arima"}
    /\ reportFile \in {NoFile, OldReport}
    /\ InitPipeline
    /\ InitDashboard

Next ==
    \/ Load
    \/ CheckEmpty
    \/ Clean
    \/ ForecastMembership
    \/ ContactRate
    \/ Project
    \/ Validate
    \/ SaveOutput
    \/ DashLoad
    \/ DashAvgRate

Spec == Init /\ [][Next]_vars

\* report files with the columns the dashboard reads
ReportRow(day, fm, fcv) ==
    (DATE :> [kind |-> "date", v |-> Num(day)])
    @@ (FM :> [kind |-> "float", v |-> Num(fm)])
    @@ (FCV :> [kind |-> "float", v |-> Num(fcv)])

DashboardReports ==
    UNION {
        {[exists |-> TRUE,
          header |-> <<DATE, FM, FCV>>,
          rows |-> [i \in 1..n |-> ReportRow(i * DaysPerMonth, fm[i], fcv[i])]] :
            fm \in [1..n -> {0, 10}], fcv \in [1..n -> {0, 1, 2}]} :
        n \in 1..MaxReportRows}

\* a dashboard session over a report file that has the columns app.py reads
InitUI ==
    /\ folder = <<>>
    /\ method = "prophet"
    /\ reportFile \in DashboardReports
    /\ InitPipeline
    /\ InitDashboard

NextUI ==
    \/ DashLoad
    \/ DashAvgRate
    \/ DashRender
    \/ SetMembership
    \/ SetAht
    \/ SetShrinkage
    \/ SetOccupancy

SpecUI == InitUI /\ [][NextUI]_vars

-----------------------------------------------------------------------------
(* Properties *)

Leq(a, b) == a.n * b.d <= b.n * a.d

HistoryDays == {DateOf(data.rows[i]) : i \in 1..Len(data.rows)}

HasZeroMembership ==
    HasCol(data, MEMBERS) /\ \E i \in 1..Len(data.rows) : data.rows[i][MEMBERS] = Num(0)

StepsComplete ==
    /\ error = "none"
    /\ ~IsEmpty(data)
    /\ HasCol(data, RATE)
    /\ avgRate # NoValue
    /\ Len(forecast.rows) >= Horizon
    /\ HasCol(forecast, FCV)
    /\ validation # NoValidation

\* C1: the pipeline is fail-fast with no partial output: the report file changes
\* only in the step from "save" to "done", which is taken only after loading,
\* cleaning, forecasting, call-volume projection and validation have completed;
\* a step that aborts the run leaves the file as it was.
C1_FailFastNoPartialOutput ==
    [][/\ (reportFile' # reportFile) =>
              (pc = "save" /\ pc' = "done" /\ StepsComplete
               /\ reportFile' = ToCsv(forecast))
       /\ (pc' = "aborted" => reportFile' = reportFile /\ error' # "none")]_vars

\* a run that failed in validation, after the forecast was complete, and left the
\* earlier report in place
C1_Witness ==
    /\ pc = "aborted"
    /\ error = "ValueError: validation"
    /\ HasCol(forecast, FCV)
    /\ reportFile = OldReport

\* C2: with a record whose Membership_Count is 0, computing Contact_Rate fails:
\* no dataset with a Contact_Rate column and no average contact rate exists
\* while a record has zero membership.
C2_ZeroMembershipRaises ==
    (HasCol(data, RATE) \/ avgRate # NoValue) => ~HasZeroMembership

\* C3: the forecast table has exactly 12 rows with strictly increasing dates,
\* all later than the last historical date.
C3_TwelveFutureRows ==
    ~IsEmpty(forecast) =>
        /\ Len(forecast.rows) = Horizon
        /\ \A i \in 1..(Len(forecast.rows) - 1) :
               forecast.rows[i]["ds"].n < forecast.rows[i + 1]["ds"].n
        /\ \A i \in 1..Len(forecast.rows) :
               forecast.rows[i]["ds"].n > SetMax(HistoryDays)

\* C4: the validator pairs every one of the last 12 actual values with the
\* prediction for the same date (method 'prophet').
C4_ValidationPairsSameDates ==
    (method = "prophet" /\ validation # NoValidation) =>
        /\ Len(validation.actual) = ValidationWindow
        /\ Len(validation.predicted) = ValidationWindow
        /\ \A i \in 1..ValidationWindow :
               validation.actual[i].date = validation.predicted[i].date

\* C5: after a successful run the dashboard's loader reads the written report,
\* finds the columns Date, Forecasted_Membership and Forecasted_Call_Volume in
\* its header and one record per written row, and does not end in an error.
C5_ReportRoundTrip ==
    (pc = "done" /\ dashPc # "load" /\ forecastDf = ReadCsv(reportFile)) =>
        /\ {DATE, FM, FCV} \subseteq Range(forecastDf.cols)
        /\ Len(forecastDf.rows) = Len(forecast.rows)
        /\ dashPc # "crashed"

\* C6: a dashboard started without a report file does not end in an unhandled
\* file-not-found error.
C6_NoDataStateInsteadOfCrash ==
    dashPc = "crashed" => dashError # "FileNotFoundError"

\* C7: after the cleaning step no numeric column that has a valid value holds a
\* missing value.
C7_NoGapsAfterCleaning ==
    pc = "forecast" =>
        \A c \in Range(data.cols) \ {DATE} :
            (\E i \in 1..Len(data.rows) : ~IsNaN(data.rows[i][c]))
                => \A i \in 1..Len(data.rows) : ~IsNaN(data.rows[i][c])

\* the figure the dashboard would display with the sliders at s
Displayed(s) ==
    PyRound(AgentsNeeded(AdjustedVolume(s.membership, dashRate),
                         s.aht, s.shrinkage, s.occupancy))

\* C8: the displayed (rounded) Agents Needed does not decrease when AHT or
\* Membership Count is raised, when Occupancy is lowered or when Shrinkage is
\* raised, the other sliders and the average contact rate held fixed.
C8_AgentsNeededMonotone ==
    dashPc = "shown" =>
        /\ \A v \in AhtValues : v >= sliders.aht =>
               Leq(shown.agents, Displayed([sliders EXCEPT !.aht = v]))
        /\ \A v \in MembershipValues : v >= sliders.membership =>
               Leq(shown.agents, Displayed([sliders EXCEPT !.membership = v]))
        /\ \A v \in OccupancyValues : v <= sliders.occupancy =>
               Leq(shown.agents, Displayed([sliders EXCEPT !.occupancy = v]))
        /\ \A v \in ShrinkageValues : v >= sliders.shrinkage =>
               Leq(shown.agents, Displayed([sliders EXCEPT !.shrinkage = v]))

\* a positive figure shown after the sliders were moved off their defaults
C8_Witness ==
    /\ dashPc = "shown"
    /\ sliders.aht = AhtMin
    /\ sliders.membership = MembershipMin
    /\ sliders.occupancy = OccupancyMax
    /\ sliders.shrinkage = ShrinkageMin
    /\ shown.agents.n > 0

\* the staffing formula of the specification: the volume times the handle time,
\* over the product of the three divisors
SpecifiedAgents(rate, s) ==
    Div(Mul(Mul(Num(s.membership), rate), Num(s.aht)),
        Mul(Mul(Rat(s.occupancy, 100), Rat(100 - s.shrinkage, 100)),
            Num(28800)))

\* C9: the displayed Agents Needed is a whole number within one half of
\* Adjusted Call Volume x AHT / (Occupancy/100) / (1 - Shrinkage/100) / 28800;
\* with 100000 members, rate 0.1, AHT 600, Shrinkage 25 and Occupancy 85 the
\* displayed volume is 10000 and 327 agents are needed; no slider value makes
\* Occupancy/100 or 1 - Shrinkage/100 zero.
C9_AgentsNeededFormula ==
    /\ dashPc = "shown" =>
        /\ shown.agents.d = 1
        /\ Leq(AbsCell(Sub(shown.agents, SpecifiedAgents(dashRate, sliders))),
               Rat(1, 2))
        /\ (sliders = DefaultSliders /\ dashRate = Rat(1, 10)) =>
               (shown.adjusted = Num(10000) /\ shown.agents = Num(327))
    /\ \A o \in OccupancyMin..OccupancyMax : Div(Num(o), Num(100)).n # 0
    /\ \A h \in ShrinkageMin..ShrinkageMax :
           Sub(Num(1), Div(Num(h), Num(100))).n # 0

\* the scenario of the specification on display
C9_Witness ==
    /\ dashPc = "shown"
    /\ sliders = DefaultSliders
    /\ dashRate = Rat(1, 10)
    /\ shown.agents = Num(327)

\* C10: once the dashboard has read the report of a finished run whose
\* forecasted membership does not sum to zero, its average contact rate is the
\* pipeline's average contact rate.
C10_DashboardRateIsPipelineRate ==
    (/\ pc = "done"
     /\ dashPc \in {"render", "shown", "crashed"}
     /\ forecastDf = ReadCsv(reportFile)
     /\ SeriesSum(Column(forecast, "yhat")).n # 0)
        => dashRate = avgRate

====
